---- MODULE Spec2Model ----
(***************************************************************************)
(* Interval remapping engine of 2023/day-05 (part2.rs), with the scalar    *)
(* lookup of part1.rs.  Ranges are records [from, length]; a mapping is a  *)
(* record [range, to]; a table is a sequence of mappings sorted by         *)
(* range.from, as parse_map delivers it.                                   *)
(***************************************************************************)
EXTENDS Integers, Sequences, FiniteSets, TLC

VARIABLES
    mappings,      \* map_range: the table argument
    input,         \* map_range: the range argument
    range,         \* map_range: the local copy consumed by the loop (the cursor)
    result,        \* map_range: the result vector
    idx,           \* map_range: position of the for loop in mappings (1-based)
    entity_map,    \* Game.entity_map: entity -> (next entity, table)
    seed_ranges,   \* Game.seed_ranges
    entity,        \* follow_map: the entity argument of the current call
    ranges,        \* follow_map: the working set of the current call
    depth,         \* follow_map: recursive calls below the first one
    min_location,  \* process: the local min_location
    returned,      \* process: the Result it returns
    lookup_value,  \* part1 search_range / convert_value: the value argument
    lookup_found,  \* part1 search_range: the Option it returns
    converted,     \* part1 convert_value: the value it returns
    instructions,  \* day-08 Network.instructions
    nodes,         \* day-08 Network.nodes: tag -> [left, right]
    walk_start,    \* day-08 walk: the start argument
    walk_end,      \* day-08 walk: the end argument
    current,       \* day-08 walk: the tag of the local `current`
    visited,       \* day-08 walk: the HashSet of (tag, instruction index)
    walk_i,        \* day-08 walk: the enumerate() counter i of the loop
    visited_nodes, \* day-08: the tags the visitor was called with, in order
    walked,        \* day-08 walk: the Result it returns
    steps,         \* day-08 process: the Result it returns
    todo,          \* workers: positions of the working set no worker has taken
    pending,       \* workers: position -> output ranges not yet collected
    collected,     \* workers: the ranges collected so far, in arrival order
    pc             \* control position

mapVars == <<mappings, input, range, result, idx>>
gameVars == <<entity_map, seed_ranges, entity, ranges, depth, min_location, returned>>
lookupVars == <<lookup_value, lookup_found, converted>>
walkVars == <<instructions, nodes, walk_start, walk_end, current, visited, walk_i,
              visited_nodes, walked, steps>>
workerVars == <<todo, pending, collected>>
vars == <<mappings, input, range, result, idx,
          entity_map, seed_ranges, entity, ranges, depth, min_location, returned,
          lookup_value, lookup_found, converted,
          instructions, nodes, walk_start, walk_end, current, visited, walk_i,
          visited_nodes, walked, steps, todo, pending, collected, pc>>

\* ------------------------------------------------------------------ bounds
MaxVal == 3       \* range ends (from + length) of the enumerated inputs
MaxEntries == 2   \* entries of an enumerated table
MaxStages == 2    \* stages of an enumerated chain
MaxSeeds == 1     \* seed ranges of an enumerated game
MaxDepth == 8     \* recursive follow_map calls the model follows
MaxInstructions == 2  \* instructions of an enumerated network

\* ------------------------------------------------------------------ Range
Range(from, length) == [from |-> from, length |-> length]

\* The values of the half-open interval [from, from + length).
Values(r) == r.from .. (r.from + r.length - 1)

overlaps(self, other) ==
    /\ self.from <= other.from + other.length
    /\ other.from <= self.from + self.length

Min2(a, b) == IF a <= b THEN a ELSE b
Max2(a, b) == IF a >= b THEN a ELSE b

\* Option<Range> as a sequence: <<>> is None, <<r>> is Some(r).
intersection_MaxEnd(self, other) ==
    IF overlaps(self, other)
    THEN LET from == Max2(self.from, other.from)
             to == Max2(self.from + self.length, other.from + other.length)
         IN  << Range(from, to - from) >>
    ELSE << >>

intersection(self, other) ==
    IF overlaps(self, other)
    THEN LET from == Max2(self.from, other.from)
             to == Min2(self.from + self.length, other.from + other.length)
         IN  << Range(from, to - from) >>
    ELSE << >>

RangeMapping(rng, to) == [range |-> rng, to |-> to]

\* ---------------------------------------------------- derived Ord, sort()
\* #[derive(PartialOrd, Ord)] on Range: lexicographic on (from, length).
RangeLe_LengthFirst(a, b) ==
    a.length < b.length \/ (a.length = b.length /\ a.from <= b.from)

RangeLe(a, b) == a.from < b.from \/ (a.from = b.from /\ a.length <= b.length)

RECURSIVE InsertSorted(_, _)
InsertSorted(s, x) ==
    IF s = << >> THEN << x >>
    ELSE IF RangeLe(x, Head(s)) THEN << x >> \o s
         ELSE << Head(s) >> \o InsertSorted(Tail(s), x)

RECURSIVE SortRanges(_)
SortRanges(s) ==
    IF s = << >> THEN << >>
    ELSE InsertSorted(SortRanges(Tail(s)), Head(s))

\* -------------------------------------------------------------- map_range
\* "push the unmapped part of the range": the result after the gap, if any,
\* between the cursor's start and the intersection's start is pushed.
PushUnmapped_Never(rng, i, res) == res

PushUnmapped_Always(rng, i, res) ==
    Append(res, Range(rng.from, i.from - rng.from))

PushUnmapped(rng, i, res) ==
    IF i.from > rng.from
    THEN Append(res, Range(rng.from, i.from - rng.from))
    ELSE res

\* "push the mapped part of the intersecting range": the translated range.
MappedPart_NoOffset(mapping, i) == Range(mapping.to, i.length)

MappedPart_WholeEntry(mapping, i) ==
    Range(mapping.to + i.from - mapping.range.from, mapping.range.length)

MappedPart(mapping, i) ==
    Range(mapping.to + i.from - mapping.range.from, i.length)

\* "consume the mapped part of the range": the cursor after the intersection.
Consume_IntersectionOnly(rng, i) ==
    Range(i.from + i.length, rng.length - i.length)

Consume_StartKept(rng, i) ==
    LET consumed_length == i.from + i.length - rng.from
    IN  Range(rng.from, rng.length - consumed_length)

Consume_LengthKept(rng, i) == Range(i.from + i.length, rng.length)

Consume(rng, i) ==
    LET consumed_length == i.from + i.length - rng.from
    IN  Range(i.from + i.length, rng.length - consumed_length)

\* One iteration of `for mapping in mappings`: the cursor and result after it.
LoopBody(mapping, rng, res) ==
    LET inter == intersection(mapping.range, rng) IN
    IF inter = << >>
    THEN [range |-> rng, result |-> res]
    ELSE [range  |-> Consume(rng, inter[1]),
          result |-> Append(PushUnmapped(rng, inter[1], res),
                            MappedPart(mapping, inter[1]))]

\* After the loop: push the leftover when it has length, sort, return.
LoopExit_AlwaysPush(rng, res) == SortRanges(Append(res, rng))

LoopExit_NeverPush(rng, res) == SortRanges(res)

LoopExit_NoSort(rng, res) ==
    IF rng.length > 0 THEN Append(res, rng) ELSE res

LoopExit(rng, res) ==
    SortRanges(IF rng.length > 0 THEN Append(res, rng) ELSE res)

RECURSIVE MapRangeFrom(_, _, _, _)
MapRangeFrom(ms, i, rng, res) ==
    IF i > Len(ms) THEN LoopExit(rng, res)
    ELSE LET st == LoopBody(ms[i], rng, res)
         IN  MapRangeFrom(ms, i + 1, st.range, st.result)

map_range(ms, r) == MapRangeFrom(ms, 1, r, << >>)

\* ------------------------------------------- part1: the scalar lookup
\* part1's Range {from, length, to} is the record [range |-> [from, length],
\* to] here, so that both variants read the same table.
range_matches_value(m, value) ==
    m.range.from <= value /\ value <= m.range.from + m.range.length

\* The 1-based index search_range reads after binary_search_by on `from`:
\* Ok(i) is any i whose from equals the value (the library promises no
\* particular one); Err(k), k the number of smaller froms, gives k - 1 in
\* 0-based terms and nothing when k = 0.  The set holds every possible index.
SearchIndexes(ms, value) ==
    LET equal == { i \in 1..Len(ms) : ms[i].range.from = value }
        below == { i \in 1..Len(ms) : ms[i].range.from < value }
    IN  IF equal # {} THEN equal
        ELSE IF below = {} THEN {}
             ELSE { Cardinality(below) }

\* Every possible result of search_range: << >> is None, <<m>> is Some(m).
search_range(ms, value) ==
    IF SearchIndexes(ms, value) = {} THEN { << >> }
    ELSE { IF range_matches_value(ms[i], value) THEN << ms[i] >> ELSE << >> :
               i \in SearchIndexes(ms, value) }

\* Every possible result of convert_value.
convert_value(ms, value) ==
    { IF found = << >> THEN value
      ELSE found[1].to + (value - found[1].range.from) :
          found \in search_range(ms, value) }

\* ------------------------------------------------------------ input space
Ranges == { Range(f, l) : f \in 0..MaxVal, l \in 0..MaxVal }
InputRanges == { r \in Ranges : r.from + r.length <= MaxVal }
\* Destination starts: where the inputs start, and where they end.
ToValues == { 0, MaxVal }
Entries == { RangeMapping(r, t) : r \in InputRanges, t \in ToValues }

\* parse_map sorts every table by range.from before it is used.
SortedByFrom(ms) ==
    \A i \in 1..Len(ms) : \A j \in 1..Len(ms) :
        i < j => ms[i].range.from <= ms[j].range.from

Tables ==
    { ms \in UNION { [1..n -> Entries] : n \in 0..MaxEntries } : SortedByFrom(ms) }

\* ----------------------------------------------------- map_range, stepwise
NoGame ==
    /\ entity_map = << >>
    /\ seed_ranges = << >>
    /\ entity = "Seed"
    /\ ranges = << >>
    /\ depth = 0
    /\ min_location = 0
    /\ returned = << >>

NoLookup ==
    /\ lookup_value = 0
    /\ lookup_found = << >>
    /\ converted = 0

NoWalk ==
    /\ instructions = << >>
    /\ nodes = << >>
    /\ walk_start = ""
    /\ walk_end = ""
    /\ current = ""
    /\ visited = {}
    /\ walk_i = 0
    /\ visited_nodes = << >>
    /\ walked = << >>
    /\ steps = << >>

NoWorkers ==
    /\ todo = {}
    /\ pending = << >>
    /\ collected = << >>

Init ==
    /\ mappings \in Tables
    /\ input \in InputRanges
    /\ range = input
    /\ result = << >>
    /\ idx = 1
    /\ pc = "loop"
    /\ NoGame
    /\ NoLookup
    /\ NoWalk
    /\ NoWorkers

MapRangeIter ==
    /\ pc = "loop"
    /\ idx <= Len(mappings)
    /\ LET st == LoopBody(mappings[idx], range, result) IN
        /\ range' = st.range
        /\ result' = st.result
    /\ idx' = idx + 1
    /\ UNCHANGED <<mappings, input, pc>>
    /\ UNCHANGED gameVars
    /\ UNCHANGED <<lookupVars, walkVars, workerVars>>

MapRangeReturn ==
    /\ pc = "loop"
    /\ idx > Len(mappings)
    /\ result' = LoopExit(range, result)
    /\ pc' = "done"
    /\ UNCHANGED <<mappings, input, range, idx>>
    /\ UNCHANGED gameVars
    /\ UNCHANGED <<lookupVars, walkVars, workerVars>>

Next == MapRangeIter \/ MapRangeReturn

Spec == Init /\ [][Next]_vars

\* ------------------------------------------------ follow_map and process
\* enum Entity, in declaration order.
EntityOrder ==
    << "Seed", "Soil", "Fertilizer", "Water", "Light", "Temperature",
       "Humidity", "Location" >>

\* ranges.iter().flat_map(|range| map_range(mappings, range)).collect()
FlatMap_FirstOnly(ms, rs) ==
    IF rs = << >> THEN << >> ELSE map_range(ms, Head(rs))

RECURSIVE FlatMap_DropLast(_, _)
FlatMap_DropLast(ms, rs) ==
    IF Len(rs) <= 1 THEN << >>
    ELSE map_range(ms, Head(rs)) \o FlatMap_DropLast(ms, Tail(rs))

RECURSIVE FlatMap(_, _)
FlatMap(ms, rs) ==
    IF rs = << >> THEN << >>
    ELSE map_range(ms, Head(rs)) \o FlatMap(ms, Tail(rs))

\* Iterator::min() under the derived order of Range.
MinRange(rs) ==
    CHOOSE r \in { rs[k] : k \in 1..Len(rs) } :
        \A k \in 1..Len(rs) : RangeLe(r, rs[k])

\* u32::to_string: the decimal digits, most significant first.
RECURSIVE to_string_Reversed(_)
to_string_Reversed(n) ==
    IF n < 10 THEN << n >> ELSE << n % 10 >> \o to_string_Reversed(n \div 10)

RECURSIVE to_string(_)
to_string(n) ==
    IF n < 10 THEN << n >> ELSE Append(to_string(n \div 10), n % 10)

\* Tables of the enumerated games: empty; an entry that ends where inputs can
\* start; a shift by one into the untouched part; two entries with a gap
\* that swap their places; a shift beyond the seeds.
SampleTables ==
    { << >>,
      << RangeMapping(Range(1, 1), 0) >>,
      << RangeMapping(Range(0, 2), 1) >>,
      << RangeMapping(Range(0, 1), 2), RangeMapping(Range(2, 1), 0) >>,
      << RangeMapping(Range(1, 2), 5) >> }

\* Seed lists as parse_ranges delivers them: at least one range.
SeedLists == UNION { [1..n -> InputRanges] : n \in 1..MaxSeeds }

\* Entity maps of n stages Seed -> Soil -> ...: the last stage points at
\* Location, or at the next entity, for which the map then has no stage.
ChainMaps ==
    UNION { { [k \in { EntityOrder[j] : j \in 1..n } |->
                 LET j == CHOOSE j \in 1..n : EntityOrder[j] = k IN
                 [next |-> IF j < n THEN EntityOrder[j + 1] ELSE last,
                  mappings |-> tables[j]]] :
              tables \in [1..n -> SampleTables],
              last \in { "Location", EntityOrder[n + 1] } } :
            n \in 1..MaxStages }

\* parse_map: mappings.sort_unstable_by_key(|range| range.range.from).
RECURSIVE InsertByKey(_, _)
InsertByKey(ms, m) ==
    IF ms = << >> THEN << m >>
    ELSE IF m.range.from <= Head(ms).range.from THEN << m >> \o ms
         ELSE << Head(ms) >> \o InsertByKey(Tail(ms), m)

RECURSIVE SortByKey(_)
SortByKey(ms) ==
    IF ms = << >> THEN << >>
    ELSE InsertByKey(SortByKey(Tail(ms)), Head(ms))

\* parse_range_mapping on a row "dest from length".
Row(dest, from, length) == RangeMapping(Range(from, length), dest)

\* new_entity_map on the maps of test_process, each table sorted by parse_map.
TestProcessMap ==
    [ Seed |-> [next |-> "Soil",
                mappings |-> SortByKey(<< Row(50, 98, 2), Row(52, 50, 48) >>)],
      Soil |-> [next |-> "Fertilizer",
                mappings |-> SortByKey(<< Row(0, 15, 37), Row(37, 52, 2),
                                           Row(39, 0, 15) >>)],
      Fertilizer |-> [next |-> "Water",
                      mappings |-> SortByKey(<< Row(49, 53, 8), Row(0, 11, 42),
                                                 Row(42, 0, 7), Row(57, 7, 4) >>)],
      Water |-> [next |-> "Light",
                 mappings |-> SortByKey(<< Row(88, 18, 7), Row(18, 25, 70) >>)],
      Light |-> [next |-> "Temperature",
                 mappings |-> SortByKey(<< Row(45, 77, 23), Row(81, 45, 19),
                                            Row(68, 64, 13) >>)],
      Temperature |-> [next |-> "Humidity",
                       mappings |-> SortByKey(<< Row(0, 69, 1), Row(1, 0, 69) >>)],
      Humidity |-> [next |-> "Location",
                    mappings |-> SortByKey(<< Row(60, 56, 37), Row(56, 93, 4) >>)] ]

\* "seeds: 79 14 55 13"
TestProcessSeeds == << Range(79, 14), Range(55, 13) >>

\* The enumerated games, and the game of test_process.
InitProcess ==
    /\ \/ entity_map \in ChainMaps /\ seed_ranges \in SeedLists
       \/ entity_map = TestProcessMap /\ seed_ranges = TestProcessSeeds
    /\ entity = "Seed"
    /\ ranges = seed_ranges
    /\ depth = 0
    /\ min_location = 0
    /\ returned = << >>
    /\ pc = "follow_map"
    /\ mappings = << >>
    /\ input = Range(0, 0)
    /\ range = Range(0, 0)
    /\ result = << >>
    /\ idx = 1
    /\ NoLookup
    /\ NoWalk
    /\ NoWorkers

\* One call of follow_map on an entity the map holds: the working set is
\* mapped through the stage's table; the call returns it when the next
\* entity is Location and recurses on the next entity otherwise.
\* The recursion is followed to MaxDepth calls; the code goes on until the
\* stack is exhausted.
FollowMap ==
    /\ pc = "follow_map"
    /\ entity \in DOMAIN entity_map
    /\ depth < MaxDepth
    /\ LET next_entity == entity_map[entity].next IN
        /\ ranges' = FlatMap(entity_map[entity].mappings, ranges)
        /\ IF next_entity = "Location"
           THEN pc' = "min" /\ UNCHANGED <<entity, depth>>
           ELSE pc' = "follow_map" /\ entity' = next_entity /\ depth' = depth + 1
    /\ UNCHANGED <<entity_map, seed_ranges, min_location, returned>>
    /\ UNCHANGED mapVars
    /\ UNCHANGED <<lookupVars, walkVars, workerVars>>

\* game.entity_map.get(&entity).unwrap() on an entity the map lacks: panic.
FollowMapPanic ==
    /\ pc = "follow_map"
    /\ entity \notin DOMAIN entity_map
    /\ pc' = "panic"
    /\ UNCHANGED gameVars
    /\ UNCHANGED mapVars
    /\ UNCHANGED <<lookupVars, walkVars, workerVars>>

\* process after follow_map: the minimum range's `from`, as a string, or
\* the error of an empty result.
ProcessMin_DefaultZero ==
    /\ pc = "min"
    /\ min_location' = IF ranges = << >> THEN 0 ELSE MinRange(ranges).from
    /\ returned' = << "Ok", to_string(min_location') >>
    /\ pc' = "returned"
    /\ UNCHANGED <<entity_map, seed_ranges, entity, ranges, depth>>
    /\ UNCHANGED mapVars
    /\ UNCHANGED <<lookupVars, walkVars, workerVars>>

ProcessMin ==
    /\ pc = "min"
    /\ IF ranges = << >>
       THEN /\ returned' = << "Err", "ParseError", "No range on seeds found" >>
            /\ UNCHANGED min_location
       ELSE /\ min_location' = MinRange(ranges).from
            /\ returned' = << "Ok", to_string(MinRange(ranges).from) >>
    /\ pc' = "returned"
    /\ UNCHANGED <<entity_map, seed_ranges, entity, ranges, depth>>
    /\ UNCHANGED mapVars
    /\ UNCHANGED <<lookupVars, walkVars, workerVars>>

NextProcess == FollowMap \/ FollowMapPanic \/ ProcessMin

SpecProcess == InitProcess /\ [][NextProcess]_vars

\* -------------------------------------------- any successor relation
\* Tables of the games below: the traversal's control does not read them.
TraversalTables == { << >>, << RangeMapping(Range(1, 1), 0) >> }

\* Entity maps as new_entity_map can build them from parsed "X-to-Y map:"
\* headers: stages for the first n entities, each pointing at any of the
\* first n + 1 entities or at Location.
TraversalMaps ==
    UNION { [ { EntityOrder[j] : j \in 1..n } ->
                [next : { EntityOrder[j] : j \in 1..(n + 1) } \cup { "Location" },
                 mappings : TraversalTables] ] :
            n \in 1..MaxStages }

InitTraversal ==
    /\ entity_map \in TraversalMaps
    /\ seed_ranges \in SeedLists
    /\ entity = "Seed"
    /\ ranges = seed_ranges
    /\ depth = 0
    /\ min_location = 0
    /\ returned = << >>
    /\ pc = "follow_map"
    /\ mappings = << >>
    /\ input = Range(0, 0)
    /\ range = Range(0, 0)
    /\ result = << >>
    /\ idx = 1
    /\ NoLookup
    /\ NoWalk
    /\ NoWorkers

SpecTraversal == InitTraversal /\ [][NextProcess]_vars

\* ------------------------------------------------- vocabulary of the claims
Done == pc = "done"

RECURSIVE SumLen(_)
SumLen(s) == IF s = << >> THEN 0 ELSE Head(s).length + SumLen(Tail(s))

\* The half-open overlap test: a.start < b.end and b.start < a.end.
HalfOpenOverlap(a, b) ==
    /\ a.from < b.from + b.length
    /\ b.from < a.from + a.length

ShareValue(a, b) == Values(a) \cap Values(b) # {}

\* Source ranges pairwise without a common value.
NonOverlapping(ms) ==
    \A i \in 1..Len(ms) : \A j \in 1..Len(ms) :
        i # j => ~ShareValue(ms[i].range, ms[j].range)

PositiveEntries(ms) == \A i \in 1..Len(ms) : ms[i].range.length > 0

\* The values of r that lie in the source range of some entry of ms.
Covered(ms, r) ==
    { v \in Values(r) : \E i \in 1..Len(ms) : v \in Values(ms[i].range) }

SetMin(S) == CHOOSE m \in S : \A x \in S : m <= x

\* The destination range of a mapping: [to, to + length).
Dest(m) == Range(m.to, m.range.length)

\* Destination ranges pairwise without a common value, and none with r.
DestsClear(ms, r) ==
    /\ \A i \in 1..Len(ms) : ~ShareValue(Dest(ms[i]), r)
    /\ \A i \in 1..Len(ms) : \A j \in 1..Len(ms) :
           i # j => ~ShareValue(Dest(ms[i]), Dest(ms[j]))

\* ----------------------------------------------------------------- claims

\* C1: the lengths of the ranges map_range returns add up to the length of
\* the input range, for every sorted table and every input range.
C1_Coverage == Done => SumLen(result) = input.length

C1_Witness ==
    /\ Done
    /\ Len(mappings) = 2
    /\ Len(result) >= 3
    /\ \E k \in 1..Len(result) : result[k].length > 0 /\ ~ShareValue(result[k], input)

\* C2 as stated (for entries of positive length, and reading "overlap" as
\* having a value in common): over a sorted table with non-overlapping source
\* ranges, no two ranges at distinct positions of the output overlap.
C2_OutputsDisjoint ==
    (Done /\ NonOverlapping(mappings) /\ PositiveEntries(mappings)) =>
        \A i \in 1..Len(result) : \A j \in 1..Len(result) :
            i # j => ~ShareValue(result[i], result[j])

\* C2 amended: when, besides, the destination ranges of the table have no
\* value in common with each other or with the input range, no two ranges at
\* distinct positions of the output have a value in common.
C2_DisjointWhenDestsClear ==
    (Done /\ NonOverlapping(mappings) /\ DestsClear(mappings, input)) =>
        \A i \in 1..Len(result) : \A j \in 1..Len(result) :
            i # j => ~ShareValue(result[i], result[j])

C2_Witness ==
    /\ Done
    /\ NonOverlapping(mappings)
    /\ DestsClear(mappings, input)
    /\ Covered(mappings, input) # {}
    /\ Covered(mappings, input) # Values(input)
    /\ Len(result) >= 2

\* C4: over a sorted table with non-overlapping source ranges, every value of
\* the input range that no entry covers lies in an output range made only of
\* such uncovered input values (an unchanged piece of the input).
C4_IdentityDefault ==
    (Done /\ NonOverlapping(mappings)) =>
        \A v \in Values(input) \ Covered(mappings, input) :
            \E k \in 1..Len(result) :
                /\ v \in Values(result[k])
                /\ Values(result[k]) \subseteq Values(input) \ Covered(mappings, input)

C4_Witness ==
    /\ Done
    /\ NonOverlapping(mappings)
    /\ Covered(mappings, input) # {}
    /\ \E v \in Values(input) \ Covered(mappings, input) :
           \E w \in Covered(mappings, input) : w < v
    /\ \E v \in Values(input) \ Covered(mappings, input) :
           \E w \in Covered(mappings, input) : v < w

\* The tables and the expected output of test_map_range's third case.
TestEverythingTable ==
    << RangeMapping(Range(10, 10), 100), RangeMapping(Range(30, 10), 200) >>
TestEverythingExpected ==
    << Range(0, 10), Range(20, 10), Range(40, 10), Range(100, 10), Range(200, 10) >>

\* C5: over a sorted table with non-overlapping source ranges, every entry
\* whose source range meets the input range in a non-empty I contributes the
\* range (to + (I.start - source.start), I.length) to the output; and the
\* table {[10,10)->100, [30,10)->200} maps [0,50) to exactly the five
\* ranges [0,10) [20,10) [40,10) [100,10) [200,10).
C5_Translation ==
    /\ (Done /\ NonOverlapping(mappings)) =>
          \A i \in 1..Len(mappings) :
              LET I == Values(mappings[i].range) \cap Values(input) IN
              I # {} =>
                  \E k \in 1..Len(result) :
                      result[k] = Range(mappings[i].to + (SetMin(I) - mappings[i].range.from),
                                        Cardinality(I))
    /\ map_range(TestEverythingTable, Range(0, 50)) = TestEverythingExpected

C5_Witness ==
    /\ Done
    /\ NonOverlapping(mappings)
    /\ Len(mappings) = 2
    /\ \A i \in 1..2 : Values(mappings[i].range) \cap Values(input) # {}
    /\ mappings[1].range.from < input.from
    /\ mappings[1].to # mappings[2].to

\* C6 as stated (for an input and entries of positive length): when the input
\* range has no value in common with any source range, the output is exactly
\* [input].
C6_NoOverlapNoMatch ==
    (Done /\ input.length > 0 /\ PositiveEntries(mappings)
        /\ Covered(mappings, input) = {}) =>
        result = << input >>

\* C7 as stated: on the empty table the output is [R], for every range R.
C7_IdentityLaw == (Done /\ mappings = << >>) => result = << input >>

\* C7 amended: on the empty table the output is [R] when R has positive
\* length, and the empty list when R has length 0.
C7_IdentityLawPositive ==
    (Done /\ mappings = << >>) =>
        result = IF input.length > 0 THEN << input >> ELSE << >>

C7_Witness == Done /\ mappings = << >> /\ input.length > 0 /\ result = << input >>

\* C9 as stated (for a non-overlapping table of entries of positive length):
\* for an input of positive length no output range has length 0.
C9_NoZeroLength ==
    (Done /\ input.length > 0 /\ NonOverlapping(mappings) /\ PositiveEntries(mappings)) =>
        \A k \in 1..Len(result) : result[k].length > 0

\* C10 as stated, on the two ranges the loop hands to overlaps (both of
\* positive length): overlaps is true exactly when a.start < b.end and
\* b.start < a.end, so ranges that only touch do not overlap.
C10_OverlapsHalfOpen ==
    (pc = "loop" /\ idx <= Len(mappings)
        /\ mappings[idx].range.length > 0 /\ range.length > 0) =>
        (overlaps(mappings[idx].range, range)
            <=> HalfOpenOverlap(mappings[idx].range, range))

\* C8 as stated: over a sorted table with non-overlapping source ranges (of
\* positive length), map_range on the singleton range [v, 1) returns exactly
\* one range, of length 1, whose start is convert_value(table, v).
C8_SingletonMatchesScalar ==
    (Done /\ input.length = 1 /\ NonOverlapping(mappings) /\ PositiveEntries(mappings)) =>
        /\ Len(result) = 1
        /\ result[1].length = 1
        /\ convert_value(mappings, input.from) = { result[1].from }

\* The scalar rule of a table: a value in an entry's source range moves to
\* to + (v - source.start); any other value stays.
Translate(ms, v) ==
    IF \E i \in 1..Len(ms) : v \in Values(ms[i].range)
    THEN LET i == CHOOSE i \in 1..Len(ms) : v \in Values(ms[i].range)
         IN  ms[i].to + (v - ms[i].range.from)
    ELSE v

\* The values the set vs becomes through the stages from entity e on.
RECURSIVE ReachFrom(_, _)
ReachFrom(e, vs) ==
    LET moved == { Translate(entity_map[e].mappings, v) : v \in vs } IN
    IF entity_map[e].next = "Location" THEN moved
    ELSE ReachFrom(entity_map[e].next, moved)

SeedValues == UNION { Values(seed_ranges[k]) : k \in 1..Len(seed_ranges) }

\* C3 as stated (for seeds that hold a value): the value process returns is
\* the minimum, over the values of the seed ranges, of the value translated
\* point by point through every stage of the chain.
C3_MinimumReachable ==
    (pc = "returned" /\ returned[1] = "Ok" /\ SeedValues # {}) =>
        min_location = SetMin(ReachFrom("Seed", SeedValues))

\* The two ranges the loop of map_range hands to intersection.
InLoop == pc = "loop" /\ idx <= Len(mappings)

\* C11 as stated (for two ranges of positive length): whenever intersection
\* returns Some(r), r has positive length and lies inside both ranges.
C11_IntersectionNonEmpty ==
    (InLoop /\ mappings[idx].range.length > 0 /\ range.length > 0) =>
        LET inter == intersection(mappings[idx].range, range) IN
        inter # << >> =>
            /\ inter[1].length > 0
            /\ Values(inter[1]) \subseteq Values(mappings[idx].range)
            /\ Values(inter[1]) \subseteq Values(range)

\* C12: intersection(a, b) is Some(start: the larger start, length: the
\* smaller end minus the larger start) exactly when the function overlaps
\* answers true for (a, b), and None otherwise; that length is never
\* negative, so the u32 subtraction does not underflow.
C12_IntersectionValue ==
    InLoop =>
        LET a == mappings[idx].range
            b == range
            start == IF a.from > b.from THEN a.from ELSE b.from
            end == IF a.from + a.length < b.from + b.length
                   THEN a.from + a.length ELSE b.from + b.length
        IN  IF overlaps(a, b)
            THEN end - start >= 0 /\ intersection(a, b) = << Range(start, end - start) >>
            ELSE intersection(a, b) = << >>

C12_Witness ==
    /\ InLoop
    /\ overlaps(mappings[idx].range, range)
    /\ mappings[idx].range.from < range.from
    /\ mappings[idx].range.from + mappings[idx].range.length < range.from + range.length
    /\ intersection(mappings[idx].range, range)[1].length > 0

\* C13: the game of test_process (the seven sample tables, seed ranges
\* [79,14) and [55,13)) makes process return Ok("46").
C13_TestProcess ==
    (pc = "returned" /\ entity_map = TestProcessMap /\ seed_ranges = TestProcessSeeds) =>
        returned = << "Ok", << 4, 6 >> >>

C13_Witness ==
    /\ pc = "returned"
    /\ entity_map = TestProcessMap
    /\ seed_ranges = TestProcessSeeds
    /\ entity = "Humidity"
    /\ min_location = 46

\* The concatenation of the sequences f[1], ..., f[n].
RECURSIVE ConcatTo(_, _)
ConcatTo(f, n) == IF n = 0 THEN << >> ELSE ConcatTo(f, n - 1) \o f[n]

\* The working set after the stages of the first k entities, each applied
\* once, in order, to every range of the set before it.
RECURSIVE AfterStages(_)
AfterStages(k) ==
    IF k = 0 THEN seed_ranges
    ELSE LET before == AfterStages(k - 1)
             table == entity_map[EntityOrder[k]].mappings
         IN  ConcatTo([i \in 1..Len(before) |-> map_range(table, before[i])],
                      Len(before))

\* C14: on a chain Seed -> Soil -> ... -> Location, the call at recursion
\* depth d is on the d+1-th entity of the chain with the working set the
\* first d stages produce, each applied once and in order to every range of
\* the set before it; the traversal ends when the entity advanced to is
\* Location, and what process then reads is the set the last stage produced.
C14_ChainTraversal ==
    /\ pc = "follow_map" =>
          entity = EntityOrder[depth + 1] /\ ranges = AfterStages(depth)
    /\ pc \in { "min", "returned" } =>
          /\ entity = EntityOrder[depth + 1]
          /\ entity_map[entity].next = "Location"
          /\ ranges = AfterStages(depth + 1)

C14_Witness ==
    /\ pc = "min"
    /\ depth >= 1
    /\ Len(ranges) >= 3
    /\ \E k \in 1..Len(ranges) : ranges[k] \notin { seed_ranges[j] : j \in 1..Len(seed_ranges) }

\* C15 as stated: the traversal from Seed applies a bounded number of stages
\* for every entity map.  The next call depends on the entity alone, so a
\* run that has applied more stages than the map holds is back on an entity
\* it left before and will be again, without end: the bound is the number
\* of stages of the map.
C15_TraversalBounded == depth <= Cardinality(DOMAIN entity_map)

\* C16 as stated: once the traversal is on an entity the map has no stage
\* for, the run ends in the error result LookupError naming that entity.
C16_LookupError ==
    (pc # "follow_map" /\ entity \notin DOMAIN entity_map) =>
        returned = << "Err", "LookupError", entity >>

\* C17 as stated: with at least one seed range the final set is not empty.
C17_FinalNeverEmpty ==
    (pc \in { "min", "returned" } /\ Len(seed_ranges) > 0) => ranges # << >>

\* C17 amended: with seed ranges whose lengths add up to more than 0 the
\* final set is not empty, and process returns Ok.
C17_FinalNeverEmptyPositive ==
    (pc \in { "min", "returned" } /\ SumLen(seed_ranges) > 0) =>
        /\ ranges # << >>
        /\ pc = "returned" => returned[1] = "Ok"

C17_Witness ==
    /\ pc = "returned"
    /\ SumLen(seed_ranges) > 0
    /\ depth >= 1
    /\ ranges # seed_ranges
    /\ returned[1] = "Ok"

\* C18: on an empty final set process returns an error result (the
\* ParseError "No range on seeds found"), and no value.
C18_EmptyResultError ==
    (pc = "returned" /\ ranges = << >>) =>
        /\ returned = << "Err", "ParseError", "No range on seeds found" >>
        /\ min_location = 0

C18_Witness == pc = "returned" /\ ranges = << >> /\ returned[1] = "Err"

\* C19: on a final set that is not empty process returns the least of the
\* starts of its ranges.
C19_MinimumStart ==
    (pc = "returned" /\ ranges # << >>) =>
        /\ returned[1] = "Ok"
        /\ min_location = SetMin({ ranges[k].from : k \in 1..Len(ranges) })

C19_Witness ==
    /\ pc = "returned"
    /\ \E j \in 1..Len(ranges) : \E k \in 1..Len(ranges) :
          /\ ranges[j].from = min_location
          /\ ranges[k].from > ranges[j].from
          /\ ranges[k].length < ranges[j].length

\* C20 as stated (for an input and entries of positive length): when the
\* input lies inside the source range of one entry of a sorted table with
\* non-overlapping source ranges, the output is the translated range alone.
C20_InsideOneEntry ==
    (Done /\ input.length > 0 /\ NonOverlapping(mappings) /\ PositiveEntries(mappings)) =>
        \A i \in 1..Len(mappings) :
            Values(input) \subseteq Values(mappings[i].range) =>
                result = << Range(mappings[i].to + (input.from - mappings[i].range.from),
                                  input.length) >>

\* C21 as stated (for an input of positive length and a non-overlapping
\* table of entries of positive length): once the cursor has length 0, an
\* iteration of the loop leaves the result as it is.
C21_EarlyStop ==
    [][ (pc = "loop" /\ pc' = "loop" /\ range.length = 0 /\ input.length > 0
            /\ NonOverlapping(mappings) /\ PositiveEntries(mappings))
        => result' = result ]_vars

\* C22: the list map_range returns is ascending by start, and by length
\* among equal starts, whatever the order in which the loop pushed the ranges.
C22_SortedOutput ==
    Done =>
        \A j \in 1..Len(result) : \A k \in 1..Len(result) :
            j < k =>
                \/ result[j].from < result[k].from
                \/ result[j].from = result[k].from /\ result[j].length <= result[k].length

\* An entry inside the input, after a gap, that moves its piece below the
\* gap: the loop pushes the gap first and the translated piece, which comes
\* first in the returned list, after it.
C22_Witness ==
    /\ Done
    /\ Len(result) >= 2
    /\ \E j \in 1..Len(mappings) :
          /\ mappings[j].range.length > 0
          /\ mappings[j].range.from > input.from
          /\ mappings[j].range.from < input.from + input.length
          /\ mappings[j].to < input.from
          /\ result[1].from = mappings[j].to
          /\ result[2].from = input.from

\* ------------------------------------------ part1: the lookup, stepwise
LookupValues == 0..MaxVal

InitLookup ==
    /\ mappings \in Tables
    /\ lookup_value \in LookupValues
    /\ lookup_found = << >>
    /\ converted = 0
    /\ pc = "search"
    /\ input = Range(0, 0)
    /\ range = Range(0, 0)
    /\ result = << >>
    /\ idx = 1
    /\ NoGame
    /\ NoWalk
    /\ NoWorkers

\* convert_value calls search_range: any of the results the binary search
\* allows.
SearchRange ==
    /\ pc = "search"
    /\ lookup_found' \in search_range(mappings, lookup_value)
    /\ pc' = "convert"
    /\ UNCHANGED <<lookup_value, converted>>
    /\ UNCHANGED <<mapVars, gameVars, walkVars, workerVars>>

\* convert_value on what search_range returned.
ConvertValue ==
    /\ pc = "convert"
    /\ converted' = IF lookup_found = << >> THEN lookup_value
                    ELSE lookup_found[1].to + (lookup_value - lookup_found[1].range.from)
    /\ pc' = "converted"
    /\ UNCHANGED <<lookup_value, lookup_found>>
    /\ UNCHANGED <<mapVars, gameVars, walkVars, workerVars>>

NextLookup == SearchRange \/ ConvertValue

SpecLookup == InitLookup /\ [][NextLookup]_vars

\* C23 as stated (for entries of positive length): over a sorted table with
\* non-overlapping source ranges, search_range returns the entry whose
\* half-open source range holds the value and convert_value moves the value
\* to to + (v - from); when no source range holds it, search_range returns
\* None and convert_value returns the value unchanged.
C23_ScalarLookup ==
    (pc = "converted" /\ NonOverlapping(mappings) /\ PositiveEntries(mappings)) =>
        IF \E j \in 1..Len(mappings) : lookup_value \in Values(mappings[j].range)
        THEN \E j \in 1..Len(mappings) :
                /\ lookup_value \in Values(mappings[j].range)
                /\ lookup_found = << mappings[j] >>
                /\ converted = mappings[j].to + (lookup_value - mappings[j].range.from)
        ELSE lookup_found = << >> /\ converted = lookup_value

\* ------------------------------------- the stage's map_range calls, by workers
\* follow_map as a function: the set the traversal from entity e returns on
\* the working set rs, stage by stage, left to right.
RECURSIVE follow_map(_, _)
follow_map(e, rs) ==
    LET out == FlatMap(entity_map[e].mappings, rs) IN
    IF entity_map[e].next = "Location" THEN out
    ELSE follow_map(entity_map[e].next, out)

\* The games the workers run: one stage Seed -> Location or two stages
\* Seed -> Soil -> Location, over tables that split a range in up to three,
\* on seed ranges long enough to be split.
WorkerTables ==
    { << RangeMapping(Range(1, 1), 0) >>, << RangeMapping(Range(0, 2), 1) >> }

WorkerMaps ==
    { [Seed |-> [next |-> "Location", mappings |-> t]] : t \in WorkerTables }
    \cup { [Seed |-> [next |-> "Soil", mappings |-> t],
            Soil |-> [next |-> "Location", mappings |-> u]] :
              t \in WorkerTables, u \in WorkerTables }

WorkerSeeds ==
    UNION { [1..n -> { r \in InputRanges : r.length >= MaxVal - 1 }] : n \in 1..MaxSeeds }

\* The working set of a stage handed out: every position is still to take.
HandOut(rs) ==
    /\ todo' = 1..Len(rs)
    /\ pending' = [k \in 1..Len(rs) |-> << >>]
    /\ collected' = << >>

InitWorkers ==
    /\ entity_map \in WorkerMaps
    /\ seed_ranges \in WorkerSeeds
    /\ entity = "Seed"
    /\ ranges = seed_ranges
    /\ depth = 0
    /\ min_location = 0
    /\ returned = << >>
    /\ todo = 1..Len(seed_ranges)
    /\ pending = [k \in 1..Len(seed_ranges) |-> << >>]
    /\ collected = << >>
    /\ pc = "workers"
    /\ mappings = << >>
    /\ input = Range(0, 0)
    /\ range = Range(0, 0)
    /\ result = << >>
    /\ idx = 1
    /\ NoLookup
    /\ NoWalk

\* A worker takes any range of the working set not taken yet and runs the
\* closure of flat_map on it: map_range(mappings, range).  Two workers at
\* most hold output that is not collected yet.
WorkerMap ==
    /\ pc = "workers"
    /\ Cardinality({ k \in DOMAIN pending : pending[k] # << >> }) < 2
    /\ \E k \in todo :
        /\ todo' = todo \ { k }
        /\ pending' = [pending EXCEPT ![k] = map_range(entity_map[entity].mappings, ranges[k])]
    /\ UNCHANGED <<collected, pc>>
    /\ UNCHANGED <<gameVars, mapVars, lookupVars, walkVars>>

\* The next range of any worker's output arrives in the collection.
WorkerCollect ==
    /\ pc = "workers"
    /\ \E k \in DOMAIN pending :
        /\ pending[k] # << >>
        /\ collected' = Append(collected, Head(pending[k]))
        /\ pending' = [pending EXCEPT ![k] = Tail(pending[k])]
    /\ UNCHANGED <<todo, pc>>
    /\ UNCHANGED <<gameVars, mapVars, lookupVars, walkVars>>

\* Every range taken and every output collected: the collection is the
\* stage's result, returned when the next entity is Location and handed to
\* the next call of follow_map otherwise.
WorkersJoin ==
    /\ pc = "workers"
    /\ todo = {}
    /\ \A k \in DOMAIN pending : pending[k] = << >>
    /\ ranges' = collected
    /\ LET next_entity == entity_map[entity].next IN
        IF next_entity = "Location"
        THEN pc' = "min" /\ UNCHANGED <<entity, depth, workerVars>>
        ELSE /\ pc' = "workers"
             /\ entity' = next_entity
             /\ depth' = depth + 1
             /\ HandOut(collected)
    /\ UNCHANGED <<entity_map, seed_ranges, min_location, returned>>
    /\ UNCHANGED <<mapVars, lookupVars, walkVars>>

NextWorkers == WorkerMap \/ WorkerCollect \/ WorkersJoin \/ ProcessMin

SpecWorkers == InitWorkers /\ [][NextWorkers]_vars

\* How many positions of the sequence s hold x.
Count(s, x) == Cardinality({ k \in 1..Len(s) : s[k] = x })

\* The same ranges, each as many times, in any order.
SameBag(s, t) ==
    /\ Len(s) = Len(t)
    /\ \A k \in 1..Len(s) : Count(s, s[k]) = Count(t, s[k])

\* C24: with the ranges of every stage's working set mapped by workers in
\* any order and their outputs collected in any interleaving, the working
\* set after every stage holds the same ranges, each as many times, as the
\* left-to-right flat_map gives, and process returns the same result.
C24_OrderIndependence ==
    /\ (pc = "workers" /\ todo = 1..Len(ranges) /\ collected = << >>) =>
          SameBag(ranges, AfterStages(depth))
    /\ pc \in { "min", "returned" } =>
          SameBag(ranges, follow_map("Seed", seed_ranges))
    /\ pc = "returned" =>
          LET sequential == follow_map("Seed", seed_ranges) IN
          returned = IF sequential = << >>
                     THEN << "Err", "ParseError", "No range on seeds found" >>
                     ELSE << "Ok", to_string(SetMin({ sequential[k].from :
                                                       k \in 1..Len(sequential) })) >>

\* A run whose collection order differs from the left-to-right one.
C24_Witness ==
    /\ pc = "returned"
    /\ depth >= 1
    /\ returned[1] = "Ok"
    /\ ranges # follow_map("Seed", seed_ranges)
    /\ ranges[1] # MinRange(ranges)

\* C25: at every point of the traversal, after any number of stages, the
\* lengths of the working set add up to what the lengths of the seed ranges
\* add up to.
C25_PipelineCoverage == SumLen(ranges) = SumLen(seed_ranges)

C25_Witness ==
    /\ pc = "min"
    /\ depth >= 1
    /\ SumLen(seed_ranges) > 0
    /\ Len(ranges) >= 3
    /\ \A k \in 1..Len(ranges) :
          ranges[k] \notin { seed_ranges[j] : j \in 1..Len(seed_ranges) }

\* What a step appended to the result vector.
Added == SubSeq(result', Len(result) + 1, Len(result'))

\* C26: an iteration of the loop appends nothing, the translated range, or a
\* gap and the translated range; the gap starts at the cursor, has positive
\* length and holds no value of the entry, and there is none when the entry
\* starts at or before the cursor's start (an entry that ends exactly where
\* the cursor starts included).  The return appends the leftover only when
\* its length is positive.
C26_IdentityFragments ==
    [][ /\ (pc = "loop" /\ pc' = "loop") =>
              /\ SubSeq(result', 1, Len(result)) = result
              /\ Len(Added) <= 2
              /\ Len(Added) = 2 =>
                    /\ Added[1].from = range.from
                    /\ Added[1].length > 0
                    /\ ~ShareValue(Added[1], mappings[idx].range)
              /\ mappings[idx].range.from <= range.from => Len(Added) <= 1
        /\ (pc = "loop" /\ pc' = "done") =>
              /\ Len(result') = Len(result) + (IF range.length > 0 THEN 1 ELSE 0)
              /\ SameBag(result', IF range.length > 0 THEN Append(result, range) ELSE result)
      ]_vars

\* An entry of positive length that ends exactly where the input starts has
\* been walked: the result holds its zero-length translated range alone.
C26_Witness ==
    /\ pc = "loop"
    /\ idx = 2
    /\ input.length > 0
    /\ mappings[1].range.length > 0
    /\ mappings[1].range.from + mappings[1].range.length = input.from
    /\ result = << Range(mappings[1].to + mappings[1].range.length, 0) >>
    /\ range = input

\* ------------------------------------------------- map_range in u32
\* u32::MAX, scaled to the values the model enumerates: every field of a
\* Range or RangeMapping is a u32, and an operation whose mathematical result
\* lies outside 0..U32_MAX overflows.
U32_MAX == MaxVal

\* What a release build keeps of a result: the value modulo 2^32 (scaled).
Wrap(x) == x % (U32_MAX + 1)

\* The intersection as the machine computes it, on self = the entry's range
\* and other = the cursor.
IntersectionU32(self, other) ==
    LET from == Max2(self.from, other.from)
        to == Min2(Wrap(self.from + self.length), Wrap(other.from + other.length))
    IN  Range(from, Wrap(to - from))

OverlapsU32(self, other) ==
    /\ self.from <= Wrap(other.from + other.length)
    /\ other.from <= Wrap(self.from + self.length)

\* The mathematical results of the u32 additions and subtractions one
\* iteration of the loop performs, in overlaps, intersection and map_range,
\* each on the operands the machine holds.
U32Ops(mapping, rng) ==
    LET self == mapping.range
        inter == IntersectionU32(self, rng)
        sum == Wrap(mapping.to + inter.from)
        inter_end == Wrap(inter.from + inter.length)
        consumed_length == Wrap(inter_end - rng.from)
    IN  { rng.from + rng.length }
        \cup (IF self.from <= Wrap(rng.from + rng.length)
              THEN { self.from + self.length } ELSE {})
        \cup (IF OverlapsU32(self, rng)
              THEN { Min2(Wrap(self.from + self.length), Wrap(rng.from + rng.length))
                         - inter.from,
                     mapping.to + inter.from,
                     sum - self.from,
                     inter.from + inter.length,
                     inter_end - rng.from,
                     rng.length - consumed_length }
                   \cup (IF inter.from > rng.from THEN { inter.from - rng.from } ELSE {})
              ELSE {})

Overflows(mapping, rng) == \E x \in U32Ops(mapping, rng) : x < 0 \/ x > U32_MAX

\* One iteration with every result wrapped: what a build without overflow
\* checks computes, and what every build computes when nothing overflows.
LoopBodyU32(mapping, rng, res) ==
    IF ~OverlapsU32(mapping.range, rng)
    THEN [range |-> rng, result |-> res]
    ELSE LET inter == IntersectionU32(mapping.range, rng)
             inter_end == Wrap(inter.from + inter.length)
             consumed_length == Wrap(inter_end - rng.from)
             gap == IF inter.from > rng.from
                    THEN << Range(rng.from, Wrap(inter.from - rng.from)) >>
                    ELSE << >>
             mapped == Range(Wrap(Wrap(mapping.to + inter.from) - mapping.range.from),
                             inter.length)
         IN  [range  |-> Range(inter_end, Wrap(rng.length - consumed_length)),
              result |-> res \o gap \o << mapped >>]

\* Tables and inputs whose ends, from + length and to + length, fit in u32.
EntriesU32 ==
    { RangeMapping(r, t) : r \in InputRanges, t \in 0..U32_MAX }

TablesU32 ==
    { ms \in UNION { [1..n -> { m \in EntriesU32 : m.to + m.range.length <= U32_MAX }] :
                        n \in 0..MaxEntries } : SortedByFrom(ms) }

InitU32 ==
    /\ mappings \in TablesU32
    /\ input \in InputRanges
    /\ range = input
    /\ result = << >>
    /\ idx = 1
    /\ pc = "loop"
    /\ NoGame
    /\ NoLookup
    /\ NoWalk
    /\ NoWorkers

MapRangeIterU32 ==
    /\ pc = "loop"
    /\ idx <= Len(mappings)
    /\ LET st == LoopBodyU32(mappings[idx], range, result) IN
        /\ range' = st.range
        /\ result' = st.result
    /\ idx' = idx + 1
    /\ UNCHANGED <<mappings, input, pc>>
    /\ UNCHANGED <<gameVars, lookupVars, walkVars, workerVars>>

\* A build with overflow checks panics at the operation that overflows.
MapRangeOverflowPanic ==
    /\ pc = "loop"
    /\ idx <= Len(mappings)
    /\ Overflows(mappings[idx], range)
    /\ pc' = "panic"
    /\ UNCHANGED <<mapVars, gameVars, lookupVars, walkVars, workerVars>>

NextU32 == MapRangeIterU32 \/ MapRangeOverflowPanic \/ MapRangeReturn

SpecU32 == InitU32 /\ [][NextU32]_vars

\* C27 as stated (for an input of positive length and a non-overlapping
\* table of entries of positive length, on an entry that holds a value of
\* the cursor): with every from + length and every to + length within u32,
\* none of the additions and subtractions of an iteration of the loop has a
\* result outside u32.
C27_NoOverflow ==
    (pc = "loop" /\ idx <= Len(mappings) /\ input.length > 0
        /\ NonOverlapping(mappings) /\ PositiveEntries(mappings)
        /\ ShareValue(mappings[idx].range, range)) =>
        ~Overflows(mappings[idx], range)

\* C28: over any sorted table, entries with overlapping source ranges
\* included, the values an iteration translates are values of the cursor
\* that lie in no entry with a smaller source start; the iteration takes
\* from the cursor exactly its values below the end of the intersection, so
\* that no later entry meets them again; and the length it subtracts from
\* the cursor's length is neither negative nor more than that length.  The
\* values that leave the loop untranslated, in a gap or in the leftover, lie
\* in no entry, so every input value that lies in an overlap is translated.
C28_OverlappingEntries ==
    [][ /\ (pc = "loop" /\ pc' = "done") =>
              \A v \in Values(range) : \A j \in 1..Len(mappings) :
                  v \notin Values(mappings[j].range)
        /\ (pc = "loop" /\ pc' = "loop") =>
          LET m == mappings[idx]
              inter == intersection(m.range, range)
          IN  inter # << >> =>
                /\ \A v \in Values(range) : \A j \in 1..Len(mappings) :
                      v < inter[1].from => v \notin Values(mappings[j].range)
                /\ \A v \in Values(inter[1]) :
                      /\ v \in Values(range)
                      /\ \A j \in 1..Len(mappings) :
                            v \in Values(mappings[j].range) =>
                                m.range.from <= mappings[j].range.from
                /\ inter[1].from + inter[1].length - range.from >= 0
                /\ inter[1].from + inter[1].length - range.from <= range.length
                /\ Values(range') =
                      { v \in Values(range) : v >= inter[1].from + inter[1].length }
      ]_vars

\* Two entries that share a value of the input have both been walked; the
\* first translated that value and the second translated what lies beyond
\* the first.
C28_Witness ==
    /\ pc = "loop"
    /\ idx = 3
    /\ Len(mappings) = 2
    /\ mappings[1].to # mappings[2].to
    /\ \E v \in Values(input) :
          v \in Values(mappings[1].range) /\ v \in Values(mappings[2].range)
    /\ \E v \in Values(input) :
          v \notin Values(mappings[1].range) /\ v \in Values(mappings[2].range)
    /\ Len(result) >= 2

\* --------------------------------------------- 2023/day-08: Network::walk
\* A node is the record [left, right] under its tag in `nodes`; an
\* instruction is "L" or "R".
Node(left, right) == [left |-> left, right |-> right]

\* instruction_index = i % num_instructions
instruction_index(k) == k % Len(instructions)

\* visited.contains(&(current.tag, instruction_index))
LoopDetected_TagOnly(tag, index) == \E p \in visited : p[1] = tag

LoopDetected(tag, index) == << tag, index >> \in visited

\* match instruction { Left => current.left, Right => current.right }
NextTag_AlwaysLeft(tag, instruction) == nodes[tag].left

NextTag(tag, instruction) ==
    IF instruction = "L" THEN nodes[tag].left ELSE nodes[tag].right

NodeNotFound == << "Err", "LogicError", "node not found" >>

\* The network and the expected visits of test_walk.
TestWalkNodes ==
    [ A |-> Node("B", "B"), B |-> Node("Z", "C"),
      C |-> Node("A", "Z"), Z |-> Node("Z", "Z") ]
TestWalkExpected == << "A", "B", "C", "A", "B", "Z" >>

\* The networks of test_process, parsed; the expected answers are 2 and 6.
TestProcessNodes1 ==
    [ AAA |-> Node("BBB", "CCC"), BBB |-> Node("DDD", "EEE"),
      CCC |-> Node("ZZZ", "GGG"), DDD |-> Node("DDD", "DDD"),
      EEE |-> Node("EEE", "EEE"), GGG |-> Node("GGG", "GGG"),
      ZZZ |-> Node("ZZZ", "ZZZ") ]
TestProcessNodes2 ==
    [ AAA |-> Node("BBB", "BBB"), BBB |-> Node("AAA", "ZZZ"),
      ZZZ |-> Node("ZZZ", "ZZZ") ]

\* The enumerated networks: nodes for some of the tags A, B, Z, whose edges
\* lead to any of these tags (to a tag without node, then, in some), under
\* every instruction list of 1..MaxInstructions instructions.
WalkTags == { "A", "B", "Z" }
Networks ==
    UNION { [D -> [left : WalkTags, right : WalkTags]] : D \in SUBSET WalkTags \ { {} } }
InstructionLists == UNION { [1..n -> { "L", "R" }] : n \in 1..MaxInstructions }

InitWalk ==
    /\ \/ /\ nodes \in Networks
          /\ instructions \in InstructionLists
          /\ walk_start \in { "A", "Z" }
          /\ walk_end = "Z"
       \/ /\ nodes = TestWalkNodes
          /\ instructions = << "L", "R" >>
          /\ walk_start = "A"
          /\ walk_end = "Z"
       \/ /\ nodes = TestProcessNodes1
          /\ instructions = << "R", "L" >>
          /\ walk_start = "AAA"
          /\ walk_end = "ZZZ"
       \/ /\ nodes = TestProcessNodes2
          /\ instructions = << "L", "L", "R" >>
          /\ walk_start = "AAA"
          /\ walk_end = "ZZZ"
    /\ current = ""
    /\ visited = {}
    /\ walk_i = 0
    /\ visited_nodes = << >>
    /\ walked = << >>
    /\ steps = << >>
    /\ pc = "walk"
    /\ mappings = << >>
    /\ input = Range(0, 0)
    /\ range = Range(0, 0)
    /\ result = << >>
    /\ idx = 1
    /\ NoGame
    /\ NoLookup
    /\ NoWorkers

\* walk before the loop: the start node is looked up.
WalkStart ==
    /\ pc = "walk"
    /\ IF walk_start \in DOMAIN nodes
       THEN current' = walk_start /\ pc' = "iter" /\ UNCHANGED walked
       ELSE walked' = NodeNotFound /\ pc' = "walked" /\ UNCHANGED current
    /\ UNCHANGED <<instructions, nodes, walk_start, walk_end, visited, walk_i,
                   visited_nodes, steps>>
    /\ UNCHANGED <<mapVars, gameVars, lookupVars, workerVars>>

\* One iteration of the loop over instructions.iter().cycle().enumerate().
WalkIter ==
    /\ pc = "iter"
    /\ LET index == instruction_index(walk_i)
           instruction == instructions[index + 1]
       IN  IF LoopDetected(current, index)
           THEN /\ walked' = << "Err", "LogicError", "loop detected", current, index, instruction >>
                /\ pc' = "walked"
                /\ UNCHANGED <<current, visited, walk_i, visited_nodes>>
           ELSE /\ visited_nodes' = Append(visited_nodes, current)
                /\ IF current = walk_end
                   THEN /\ walked' = << "Ok", current >>
                        /\ pc' = "walked"
                        /\ UNCHANGED <<current, visited, walk_i>>
                   ELSE /\ visited' = visited \cup { << current, index >> }
                        /\ IF NextTag(current, instruction) \in DOMAIN nodes
                           THEN /\ current' = NextTag(current, instruction)
                                /\ walk_i' = walk_i + 1
                                /\ UNCHANGED <<walked, pc>>
                           ELSE /\ walked' = NodeNotFound
                                /\ pc' = "walked"
                                /\ UNCHANGED <<current, walk_i>>
    /\ UNCHANGED <<instructions, nodes, walk_start, walk_end, steps>>
    /\ UNCHANGED <<mapVars, gameVars, lookupVars, workerVars>>

\* process after walk: the error of walk, or the visits minus one as a string.
ProcessSteps ==
    /\ pc = "walked"
    /\ steps' = IF walked[1] = "Ok"
                THEN << "Ok", to_string(Len(visited_nodes) - 1) >>
                ELSE walked
    /\ pc' = "processed"
    /\ UNCHANGED <<instructions, nodes, walk_start, walk_end, current, visited,
                   walk_i, visited_nodes, walked>>
    /\ UNCHANGED <<mapVars, gameVars, lookupVars, workerVars>>

NextWalk == WalkStart \/ WalkIter \/ ProcessSteps

SpecWalk == InitWalk /\ [][NextWalk]_vars

\* The tag the walk is on after k steps from walk_start, each step along the
\* edge the instruction at k mod |instructions| selects; a tag without node
\* has no edges and is where the steps end.
RECURSIVE TagAt(_)
TagAt(k) ==
    IF k = 0 THEN walk_start
    ELSE LET prev == TagAt(k - 1)
             instruction == instructions[((k - 1) % Len(instructions)) + 1]
         IN  IF prev \notin DOMAIN nodes THEN prev
             ELSE IF instruction = "L" THEN nodes[prev].left ELSE nodes[prev].right

\* |nodes| x |instructions|
WalkBound == Cardinality(DOMAIN nodes) * Len(instructions)

\* C29: on a non-empty instruction list walk visits at most |nodes| x
\* |instructions| (node, instruction index) states: every iteration begun
\* has added a new one, and walk is never stuck before it returns.  What it
\* returns is Ok(end), the loop error or "node not found", and the loop
\* error only when no number of steps from start along the cycled
\* instructions arrives at the end node.
C29_WalkTerminates ==
    /\ Len(visited_nodes) <= WalkBound
    /\ Cardinality(visited) <= WalkBound
    /\ pc = "iter" => walk_i = Cardinality(visited) /\ walk_i = Len(visited_nodes)
    /\ pc \in { "walk", "iter" } => ENABLED (WalkStart \/ WalkIter)
    /\ pc \in { "walked", "processed" } =>
          \/ walked = << "Ok", walk_end >>
          \/ walked = << "Err", "LogicError", "node not found" >>
          \/ /\ Len(walked) = 6
             /\ walked[3] = "loop detected"
             /\ << walked[4], walked[5] >> \in visited
             /\ \A k \in 0..(2 * WalkBound) :
                   ~(TagAt(k) = walk_end /\ TagAt(k) \in DOMAIN nodes)

\* The loop error after as many visits as there are (node, index) states.
C29_Witness ==
    /\ pc = "walked"
    /\ walked[1] = "Err"
    /\ walked[3] = "loop detected"
    /\ Len(visited_nodes) = WalkBound
    /\ WalkBound >= 4

\* C30: when walk returns Ok the visitor was called on the start node first
\* and on the end node last, on no end node before, and each visit after
\* the first is on the node the left or right edge of the node before leads
\* to, as the instruction at (position mod |instructions|) selects; process
\* returns the number of visits minus one.  test_walk sees A B C A B Z, and
\* the networks of test_process give 2 and 6.
C30_VisitsFollowPath ==
    /\ (pc \in { "walked", "processed" } /\ walked[1] = "Ok") =>
          LET n == Len(visited_nodes) IN
          /\ n >= 1
          /\ visited_nodes[1] = walk_start
          /\ visited_nodes[n] = walk_end
          /\ walked[2] = walk_end
          /\ \A k \in 1..(n - 1) :
                /\ visited_nodes[k] # walk_end
                /\ visited_nodes[k + 1] =
                      IF instructions[((k - 1) % Len(instructions)) + 1] = "L"
                      THEN nodes[visited_nodes[k]].left
                      ELSE nodes[visited_nodes[k]].right
          /\ pc = "processed" => steps = << "Ok", to_string(n - 1) >>
    /\ (pc \in { "walked", "processed" } /\ nodes = TestWalkNodes) =>
          walked = << "Ok", "Z" >> /\ visited_nodes = TestWalkExpected
    /\ (pc = "processed" /\ nodes = TestProcessNodes1) => steps = << "Ok", << 2 >> >>
    /\ (pc = "processed" /\ nodes = TestProcessNodes2) => steps = << "Ok", << 6 >> >>

\* The second network of test_process, walked to the end: seven visits, the
\* instruction list gone through more than twice.
C30_Witness ==
    /\ pc = "processed"
    /\ nodes = TestProcessNodes2
    /\ walked = << "Ok", "ZZZ" >>
    /\ Len(visited_nodes) = 7
    /\ walk_i = 6

====
